---------------------------- MODULE Spec2Model ----------------------------
(***************************************************************************)
(* A model of the posebusters geometry-validation loss: the five loss      *)
(* terms (bond length, bond angle, ring planarity, steric clash,           *)
(* chirality), their aggregation in total_loss, and a caller that holds    *)
(* positions and topology, evaluates the loss and updates the positions.   *)
(*                                                                         *)
(* Numbers.  Atom coordinates are points of the integer lattice (1 unit =  *)
(* 1 Angstrom), so squared distances, dot products and determinants are    *)
(* exact integers.  The floating-point results of the code are modelled in *)
(* fixed point:                                                            *)
(*   lengths      in 1/100 Angstrom   (floor of 100 * sqrt)                *)
(*   angles       in 1/100 radian     (floor of 100 * acos)                *)
(*   cosines      in 1/1000                                                *)
(*   loss terms   exact fractions num/den of 1/10000 units                 *)
(*   total loss   exact fraction  num/den of 1/100000 units (the weights   *)
(*                are held in tenths)                                      *)
(* A result is a record: a value, NaN, or the exception the call raised.   *)
(***************************************************************************)
EXTENDS Integers, Sequences, FiniteSets

\* ------------------------------------------------------------ results ---

Val(n, d)     == [kind |-> "val", num |-> n, den |-> d, center |-> 0]
NaN           == [kind |-> "nan", num |-> 0, den |-> 1, center |-> 0]
IndexError    == [kind |-> "IndexError", num |-> 0, den |-> 1, center |-> 0]
TypeError     == [kind |-> "TypeError", num |-> 0, den |-> 1, center |-> 0]
ValueError(c) == [kind |-> "ValueError", num |-> 0, den |-> 1, center |-> c]

IsVal(x) == x.kind = "val"
IsNaN(x) == x.kind = "nan"
IsErr(x) == x.kind \in {"IndexError", "TypeError", "ValueError"}

\* float addition: NaN absorbs; fractions are added exactly
Add(x, y) ==
    IF IsNaN(x) \/ IsNaN(y) THEN NaN
    ELSE IF x.den = y.den THEN Val(x.num + y.num, x.den)
    ELSE Val(x.num * y.den + y.num * x.den, x.den * y.den)

\* w * x for a weight w held in tenths
Scale(w, x) == IF IsNaN(x) THEN NaN ELSE Val(w * x.num, x.den)

\* x < y on floats: false as soon as one side is NaN
Less(x, y) ==
    /\ IsVal(x) /\ IsVal(y)
    /\ x.num * y.den < y.num * x.den

RECURSIVE SumSeq(_)
SumSeq(s) == IF s = <<>> THEN 0 ELSE Head(s) + SumSeq(Tail(s))

\* torch.mean of a 1-d tensor: NaN when the tensor is empty
Mean(s) == IF Len(s) = 0 THEN NaN ELSE Val(SumSeq(s), Len(s))

\* ---------------------------------------------------------- fixed point ---

LenScale == 100
CosScale == 1000
ValScale == 10000

RECURSIVE ISqrtIn(_, _, _)
ISqrtIn(x, lo, hi) ==
    IF lo >= hi THEN lo
    ELSE LET mid == (lo + hi + 1) \div 2
         IN  IF mid * mid <= x THEN ISqrtIn(x, mid, hi)
             ELSE ISqrtIn(x, lo, mid - 1)

\* floor of the square root
ISqrt(x) == ISqrtIn(x, 0, IF x < 46340 THEN x ELSE 46340)

\* ------------------------------------------------------------- vectors ---

Sub(a, b)  == <<a[1] - b[1], a[2] - b[2], a[3] - b[3]>>
Dot(a, b)  == a[1] * b[1] + a[2] * b[2] + a[3] * b[3]
\* torch.norm of a 3-vector, in 1/100
Norm(a)    == ISqrt(Dot(a, a) * LenScale * LenScale)
\* determinant of the 3x3 matrix with rows a, b, c
Det3(a, b, c) ==
      a[1] * (b[2] * c[3] - b[3] * c[2])
    - a[2] * (b[1] * c[3] - b[3] * c[1])
    + a[3] * (b[1] * c[2] - b[2] * c[1])

\* ------------------------------------------------------ tensor indexing ---

\* positions[i]: an index in -N..N-1 is accepted, a negative one counting
\* from the end; anything else raises IndexError
IndexOK(i, n) == -n <= i /\ i < n
Wrap(i, n)    == IF i < 0 THEN i + n ELSE i
\* atom index i (0-based, already accepted) of the position sequence
At(positions, i) == positions[Wrap(i, Len(positions)) + 1]

AllIndexOK(rows, n) ==
    \A k \in 1..Len(rows) : \A c \in 1..Len(rows[k]) : IndexOK(rows[k][c], n)

Sq(x) == x * x

\* ---------------------------------------------------- bond length term ---

predicted_lengths_abs(pred_positions, bond_indices) ==
    [k \in 1..Len(bond_indices) |->
        Norm(At(pred_positions, bond_indices[k][1]))]

\* ||r_i - r_j|| per bond
predicted_lengths(pred_positions, bond_indices) ==
    [k \in 1..Len(bond_indices) |->
        Norm(Sub(At(pred_positions, bond_indices[k][1]),
                 At(pred_positions, bond_indices[k][2])))]

bond_length_loss(pred_positions, bond_indices, target_lengths) ==
    IF ~AllIndexOK(bond_indices, Len(pred_positions)) THEN IndexError
    ELSE LET lens == predicted_lengths(pred_positions, bond_indices)
         IN  Mean([k \in 1..Len(bond_indices) |->
                      Sq(lens[k] - target_lengths[k])])

\* ----------------------------------------------------- bond angle term ---

CeilDiv(a, b) == (a + b - 1) \div b

\* floor of 10000 * cos(x / 100) for 0 <= x <= pi/2 (Taylor series to x^8,
\* Horner form, the subtracted part rounded up)
CosSeries(x) ==
    LET y  == x * x
        t4 == ValScale - (y * ValScale) \div (56 * ValScale)
        t3 == ValScale - (y * t4) \div (30 * ValScale)
        t2 == ValScale - (y * t3) \div (12 * ValScale)
    IN  ValScale - CeilDiv(y * t2, 2 * ValScale)

PiFp == 314
\* floor of 1000 * cos(k / 100), 0 <= k <= 314
CosFp(k) ==
    IF 2 * k <= PiFp THEN CosSeries(k) \div 10
    ELSE -CeilDiv(CosSeries(PiFp - k), 10)

CosTable == [k \in 0..PiFp |-> CosFp(k)]

\* torch.acos on [-1, 1]: floor of 100 * acos(c / 1000)
ACos(c) == Cardinality({k \in 1..PiFp : CosTable[k] >= c})

Clamp(x, lo, hi) == IF x < lo THEN lo ELSE IF x > hi THEN hi ELSE x

\* sum(a * b) / (norm(a) * norm(b) + 1e-6), in 1/1000, rounded to nearest.
\* The norms' product is sqrt(|a|^2 |b|^2).  The epsilon, far below 1/1000,
\* shows only where that product is 0: there the quotient is 0 / 1e-6 = 0.
CosQuotient(a, b) ==
    LET ab == Dot(a, b)
        n2 == Dot(a, a) * Dot(b, b)
        m  == IF n2 = 0 THEN 0
              ELSE (ISqrt((4 * CosScale * CosScale * ab * ab) \div n2) + 1)
                       \div 2
    IN  IF ab < 0 THEN -m ELSE m

predicted_angles(positions, angle_indices) ==
    [k \in 1..Len(angle_indices) |->
        LET a == Sub(At(positions, angle_indices[k][1]),
                     At(positions, angle_indices[k][2]))
            b == Sub(At(positions, angle_indices[k][3]),
                     At(positions, angle_indices[k][2]))
            cos_angles == Clamp(CosQuotient(a, b), -CosScale, CosScale)
        IN  ACos(cos_angles)]

bond_angle_loss(positions, angle_indices, target_angles_rad) ==
    IF ~AllIndexOK(angle_indices, Len(positions)) THEN IndexError
    ELSE LET ang == predicted_angles(positions, angle_indices)
         IN  Mean([k \in 1..Len(angle_indices) |->
                      Sq(ang[k] - target_angles_rad[k])])

\* -------------------------------------------------- ring planarity term ---

\* positions[rings]: the coordinates of every ring's atoms
Gather(positions, rows) ==
    [b \in 1..Len(rows) |->
        [i \in 1..Len(rows[b]) |-> At(positions, rows[b][i])]]

RECURSIVE SumVec(_)
SumVec(ps) ==
    IF ps = <<>> THEN <<0, 0, 0>>
    ELSE LET r == SumVec(Tail(ps))
         IN  <<Head(ps)[1] + r[1], Head(ps)[2] + r[2], Head(ps)[3] + r[3]>>

\* ring - centroid, times the ring size R (so that it stays on the lattice)
Centered(ring) ==
    LET R == Len(ring)
        c == SumVec(ring)
    IN  [i \in 1..R |-> <<R * ring[i][1] - c[1], R * ring[i][2] - c[2],
                          R * ring[i][3] - c[3]>>]

\* centered^T centered (times R^2): entry (r, c) of the 3x3 scatter matrix
Cov(centered) ==
    [r \in 1..3 |-> [c \in 1..3 |->
        SumSeq([i \in 1..Len(centered) |-> centered[i][r] * centered[i][c]])]]

\* M - k I is positive semidefinite: the three coefficients of its
\* characteristic polynomial (trace, sum of the principal 2x2 minors,
\* determinant) are all >= 0
ShiftPSD(M, k) ==
    LET A  == [r \in 1..3 |-> [c \in 1..3 |->
                  IF r = c THEN M[r][c] - k ELSE M[r][c]]]
        e1 == A[1][1] + A[2][2] + A[3][3]
        e2 ==   A[1][1] * A[2][2] - A[1][2] * A[2][1]
              + A[1][1] * A[3][3] - A[1][3] * A[3][1]
              + A[2][2] * A[3][3] - A[2][3] * A[3][2]
        e3 == Det3(A[1], A[2], A[3])
    IN  e1 >= 0 /\ e2 >= 0 /\ e3 >= 0

RECURSIVE SmallestIn(_, _, _)
SmallestIn(M, lo, hi) ==
    IF lo >= hi THEN lo
    ELSE LET mid == (lo + hi + 1) \div 2
         IN  IF ShiftPSD(M, mid) THEN SmallestIn(M, mid, hi)
             ELSE SmallestIn(M, lo, mid - 1)

\* torch.svd(cov): the smallest singular value of the scatter matrix (its
\* singular vector is the plane's normal), rounded down
SmallestSingular(M) ==
    SmallestIn(M, 0, (M[1][1] + M[2][2] + M[3][3]) \div 3)

\* sum over the ring's atoms of (centered . normal)^2, in 1/10000: with the
\* normal the unit singular vector of the smallest singular value s of cov,
\* that sum is normal^T cov normal = s
RingDistancesSq(ring) ==
    (SmallestSingular(Cov(Centered(ring))) * ValScale)
        \div (Len(ring) * Len(ring))

ring_planarity_loss(ring_positions) ==
    IF Len(ring_positions) = 0 \/ Len(ring_positions[1]) = 0 THEN NaN
    ELSE Val(SumSeq([b \in 1..Len(ring_positions) |->
                        RingDistancesSq(ring_positions[b])]),
             Len(ring_positions) * Len(ring_positions[1]))

\* ---------------------------------------------------- steric clash term ---

Threshold == 75

Relu(x) == IF x > 0 THEN x ELSE 0

\* clash_scores[i][j] for atoms i, j (1-based rows of positions)
clash_scores(positions, vdw_radii, threshold) ==
    [i \in 1..Len(positions) |-> [j \in 1..Len(positions) |->
        LET dist_matrix      == Norm(Sub(positions[i], positions[j]))
            sum_vdw          == vdw_radii[i] + vdw_radii[j]
            min_allowed_dist == (threshold * sum_vdw) \div LenScale
        IN  IF i = j THEN 0 ELSE Relu(min_allowed_dist - dist_matrix)]]

steric_clash_loss(positions, vdw_radii, threshold) ==
    LET cs == clash_scores(positions, vdw_radii, threshold)
    IN  Val(SumSeq([i \in 1..Len(positions) |->
                SumSeq([j \in 1..Len(positions) |-> Sq(cs[i][j])])]), 1)

\* ------------------------------------------------------- chirality term ---

signed_volume_unsigned(positions, center_idx, neighbors) ==
    LET c == At(positions, center_idx)
        v == Det3(Sub(At(positions, neighbors[1]), c),
                  Sub(At(positions, neighbors[2]), c),
                  Sub(At(positions, neighbors[3]), c))
    IN  IF v < 0 THEN -v ELSE v

\* det(vec[:3]) for vec = positions[neighbors] - positions[center_idx]
signed_volume(positions, center_idx, neighbors) ==
    LET c == At(positions, center_idx)
    IN  Det3(Sub(At(positions, neighbors[1]), c),
             Sub(At(positions, neighbors[2]), c),
             Sub(At(positions, neighbors[3]), c))

\* one pass of the loop body: the penalty of one constraint, or what it raises
chirality_step(positions, cc) ==
    IF Len(cc.neighbors) # 4 THEN ValueError(cc.center)
    ELSE IF \/ \E c \in 1..4 : ~IndexOK(cc.neighbors[c], Len(positions))
            \/ ~IndexOK(cc.center, Len(positions))
         THEN IndexError
    ELSE Val(Relu(-signed_volume(positions, cc.center, cc.neighbors))
                 * ValScale, 1)

RECURSIVE chirality_loop(_, _, _)
chirality_loop(positions, chiral_centers, loss) ==
    IF chiral_centers = <<>> THEN loss
    ELSE LET p == chirality_step(positions, Head(chiral_centers))
         IN  IF IsErr(p) THEN p
             ELSE chirality_loop(positions, Tail(chiral_centers), Add(loss, p))

\* the earlier draft: no check of the neighbour count, the first three
\* neighbours taken as they come
chirality_loss_unvalidated(positions, chiral_centers) ==
    chirality_loop(positions,
        [k \in 1..Len(chiral_centers) |->
            [center |-> chiral_centers[k].center,
             neighbors |-> IF Len(chiral_centers[k].neighbors) >= 3
                           THEN SubSeq(chiral_centers[k].neighbors, 1, 3)
                                   \o <<chiral_centers[k].center>>
                           ELSE chiral_centers[k].neighbors]],
        Val(0, 1))

chirality_loss(positions, chiral_centers) ==
    chirality_loop(positions, chiral_centers, Val(0, 1))

\* ------------------------------------------------------------ the caller ---

\* no evaluation yet
NoEvaluation == [positions |-> <<>>]
\* no parallel evaluation under way; a thread that has not finished
NoSlots == [positions |-> <<>>]
Pending == [kind |-> "pending"]

VARIABLES
    positions,   \* the caller's current coordinates, one lattice point per atom
    topo,        \* the caller's topology: bonds, angles, rings, vdw_radii,
                 \* chiral_centers
    weights,     \* the Weight Configuration the caller passes, or NoWeights
    pc,          \* "eval": the caller evaluates next; "update": it updates
    last,        \* what the latest evaluation computed
    prev,        \* what the evaluation before it computed
    upd,         \* how the caller changed the positions between the two
    memo,        \* what the first evaluation computed
    budget,      \* evaluations the caller's loop has left
    slots,       \* the result slots of the five term threads of a parallel
                 \* evaluation, the chirality thread's loop locals, and the
                 \* order in which the threads finished
    par          \* what the latest parallel evaluation gathered

vars == <<positions, topo, weights, pc, last, prev, upd, memo, budget,
          slots, par>>

\* ----------------------------------------------------------- aggregator ---

W_bond_length    == 10
W_bond_angle     == 5
W_ring_planarity == 3
W_steric_clash_as_ring == W_ring_planarity
W_steric_clash   == 2
W_chirality      == 2

\* loss += w * term: a raised exception ends the call, later terms are not
\* evaluated
Accumulate(loss, w, term) ==
    IF IsErr(loss) THEN loss
    ELSE IF IsErr(term) THEN term
    ELSE Add(loss, Scale(w, term))

\* ring_planarity_loss(positions[rings])
RingTerm(pos, rings) ==
    IF ~AllIndexOK(rings, Len(pos)) THEN IndexError
    ELSE ring_planarity_loss(Gather(pos, rings))

\* the five "loss += weight * term" statements, from a running loss l0
Aggregate(l0, pos, bonds, angles, rings, vdw_radii, chiral_centers) ==
    LET l1 == Accumulate(l0, W_bond_length,
                  bond_length_loss(pos, bonds.indices, bonds.target_lengths))
        l2 == Accumulate(l1, W_bond_angle,
                  bond_angle_loss(pos, angles.indices, angles.target_radians))
        l3 == Accumulate(l2, W_ring_planarity, RingTerm(pos, rings))
        l4 == Accumulate(l3, W_steric_clash,
                  steric_clash_loss(pos, vdw_radii, Threshold))
        l5 == Accumulate(l4, W_chirality, chirality_loss(pos, chiral_centers))
    IN  l5

\* a running loss that is kept between calls instead of starting from 0.0
total_loss_carried(pos, bonds, angles, rings, vdw_radii, chiral_centers) ==
    Aggregate(IF last # NoEvaluation /\ ~IsErr(last.total)
              THEN last.total ELSE Val(0, 1),
              pos, bonds, angles, rings, vdw_radii, chiral_centers)

total_loss(pos, bonds, angles, rings, vdw_radii, chiral_centers) ==
    Aggregate(Val(0, 1), pos, bonds, angles, rings, vdw_radii, chiral_centers)

NoWeights == <<>>

\* the call as the caller writes it: total_loss takes six parameters, so a
\* seventh argument (a Weight Configuration) is a TypeError
Call(pos, T, w) ==
    IF w # NoWeights THEN TypeError
    ELSE total_loss(pos, T.bonds, T.angles, T.rings, T.vdw_radii,
                    T.chiral_centers)

ConstraintOK(cc, n) ==
    /\ Len(cc.neighbors) = 4
    /\ IndexOK(cc.center, n)
    /\ \A c \in 1..4 : IndexOK(cc.neighbors[c], n)

\* everything one evaluation computes: the total, each term called on its
\* own, and the per-bond, per-pair and per-constraint intermediates
Evaluation(pos, T, w) ==
    [positions |-> pos,
     total |-> Call(pos, T, w),
     bl |-> bond_length_loss(pos, T.bonds.indices, T.bonds.target_lengths),
     ba |-> bond_angle_loss(pos, T.angles.indices, T.angles.target_radians),
     rp |-> RingTerm(pos, T.rings),
     sc |-> steric_clash_loss(pos, T.vdw_radii, Threshold),
     ch |-> chirality_loss(pos, T.chiral_centers),
     lens |-> IF AllIndexOK(T.bonds.indices, Len(pos))
              THEN predicted_lengths(pos, T.bonds.indices) ELSE <<>>,
     angs |-> IF AllIndexOK(T.angles.indices, Len(pos))
              THEN predicted_angles(pos, T.angles.indices) ELSE <<>>,
     clash |-> clash_scores(pos, T.vdw_radii, Threshold),
     pens |-> [k \in 1..Len(T.chiral_centers) |->
                  chirality_loss(pos, <<T.chiral_centers[k]>>)],
     vols |-> [k \in 1..Len(T.chiral_centers) |->
                  IF ConstraintOK(T.chiral_centers[k], Len(pos))
                  THEN signed_volume(pos, T.chiral_centers[k].center,
                                     T.chiral_centers[k].neighbors)
                  ELSE 0]]


\* ------------------------------------------------------------ scenarios ---

Bonds(ix, t)  == [indices |-> ix, target_lengths |-> t]
Angles(ix, t) == [indices |-> ix, target_radians |-> t]
CC(c, nb)     == [center |-> c, neighbors |-> nb]
Topology(b, a, r, v, c) ==
    [bonds |-> b, angles |-> a, rings |-> r, vdw_radii |-> v,
     chiral_centers |-> c]

Bent  == << <<0,0,0>>, <<2,0,0>>, <<0,2,0>> >>
Close == << <<0,0,0>>, <<1,0,0>>, <<0,0,3>>, <<1,0,3>> >>
Ring4 == << <<0,0,0>>, <<2,0,0>>, <<2,2,0>>, <<0,2,0>>, <<0,0,2>> >>
Puckered == << <<0,0,0>>, <<2,0,0>>, <<2,2,1>>, <<0,2,0>>, <<0,1,1>> >>
Tetra == << <<0,0,0>>, <<1,1,1>>, <<-1,-1,1>>, <<-1,1,-1>>, <<1,-1,-1>> >>
Flat  == << <<0,0,0>>, <<2,0,0>>, <<0,2,0>>, <<-2,0,0>>, <<0,-2,0>> >>

BentTopo(bondIx, angleIx) ==
    Topology(Bonds(bondIx, <<200, 200>>), Angles(angleIx, <<157>>),
             <<>>, <<100, 100, 100>>, <<>>)

TetraTopo(cc) ==
    Topology(Bonds(<< <<0,1>>, <<0,2>>, <<0,3>>, <<0,4>> >>,
                   <<173, 173, 173, 173>>),
             Angles(<< <<1,0,2>>, <<1,0,3>>, <<2,0,3>> >>, <<191, 191, 191>>),
             <<>>, <<100, 100, 100, 100, 100>>, cc)

RingTopo(cc) ==
    Topology(Bonds(<< <<0,1>>, <<1,2>>, <<2,3>>, <<3,0>>, <<0,4>> >>,
                   <<200, 200, 200, 200, 200>>),
             Angles(<< <<0,1,2>>, <<1,2,3>> >>, <<157, 157>>),
             << <<0,1,2,3>> >>, <<100, 100, 100, 100, 100>>, cc)

\* a bent triatomic at its targets, and a strained ring with a wrong-handed
\* centre: the geometries the refinement loop runs on
LoopScenarios ==
    { [positions |-> Bent,
       topo |-> BentTopo(<< <<0,1>>, <<0,2>> >>, << <<1,0,2>> >>)],
      [positions |-> Puckered,
       topo |-> RingTopo(<< CC(0, <<3,1,4,2>>) >>)] }

\* well-formed molecules
WellFormed ==
    LoopScenarios \cup
    {
      [positions |-> Close,
       topo |-> Topology(Bonds(<< <<0,1>>, <<0,2>> >>, <<100, 300>>),
                         Angles(<< <<1,0,2>> >>, <<157>>),
                         <<>>, <<100, 100, 100, 100>>, <<>>)],
      [positions |-> Ring4, topo |-> RingTopo(<< CC(0, <<1,3,4,2>>) >>)],
      [positions |-> Tetra, topo |-> TetraTopo(<< CC(0, <<1,2,3,4>>) >>)],
      [positions |-> Flat,
       topo |-> Topology(Bonds(<< <<0,1>>, <<0,2>>, <<0,3>>, <<0,4>> >>,
                               <<200, 200, 200, 200>>),
                         Angles(<< <<1,0,2>>, <<1,0,3>> >>, <<157, 314>>),
                         << <<1,2,3,4>> >>,
                         <<100, 100, 100, 100, 100>>,
                         << CC(0, <<1,2,3,4>>) >>)] }

\* malformed topologies a caller can hand in
Malformed ==
    { [positions |-> Tetra, topo |-> TetraTopo(<< CC(0, <<1,2,3>>) >>)],
      [positions |-> Tetra, topo |-> TetraTopo(<< CC(0, <<1,2,3,4,2>>) >>)],
      [positions |-> Tetra,
       topo |-> TetraTopo(<< CC(0, <<1,3,2,4>>), CC(1, <<0,2,3>>) >>)],
      [positions |-> Tetra,
       topo |-> TetraTopo(<< CC(0, <<1,2,7,4>>), CC(2, <<0,1,3,4,1>>) >>)],
      [positions |-> Bent,
       topo |-> BentTopo(<< <<0,1>>, <<0,-1>> >>, << <<1,0,2>> >>)],
      [positions |-> Bent,
       topo |-> BentTopo(<< <<0,1>>, <<0,3>> >>, << <<1,0,2>> >>)],
      [positions |-> Bent,
       topo |-> BentTopo(<< <<0,1>>, <<0,2>> >>, << <<1,0,-2>> >>)],
      [positions |-> Bent,
       topo |-> BentTopo(<< <<0,1>>, <<0,2>> >>, << <<1,0,-4>> >>)] }

Scenarios == WellFormed \cup Malformed

\* a caller-supplied Weight Configuration: every weight 1.0
UnitWeights == <<10, 10, 10, 10, 10>>
WeightChoices == {NoWeights, UnitWeights}

\* ------------------------------------------------------------- updates ---

Steps == { <<1,0,0>>, <<-1,0,0>>, <<0,1,0>>, <<0,-1,0>>, <<0,0,1>>, <<0,0,-1>> }

Plus(a, b) == <<a[1] + b[1], a[2] + b[2], a[3] + b[3]>>

\* proper rotations of the lattice (quarter turns about the z, x axes)
Rotations == {"id", "z", "x"}
Rot(r, v) ==
    IF r = "z" THEN <<-v[2], v[1], v[3]>>
    ELSE IF r = "x" THEN <<v[1], -v[3], v[2]>>
    ELSE v
Translations == { <<0,0,0>>, <<1,-1,2>> }

\* the mirror image in the plane z = 0
Mirror(v) == <<v[1], v[2], -v[3]>>

MaxCalls == 2
MaxLoopCalls == 3

\* -------------------------------------------------------------- actions ---

Start(S, W, n) ==
    /\ pc = "eval" /\ upd = "none" /\ budget = n
    /\ last = NoEvaluation /\ prev = NoEvaluation
    /\ memo = NoEvaluation
    /\ slots = NoSlots /\ par = NoEvaluation
    /\ \E s \in S : positions = s.positions /\ topo = s.topo
    /\ weights \in W

Init == Start(Scenarios, WeightChoices, MaxCalls)

\* the caller evaluates the loss at its current positions
Evaluate ==
    /\ pc = "eval" /\ budget > 0
    /\ last' = Evaluation(positions, topo, weights)
    /\ prev' = last
    /\ memo' = IF last = NoEvaluation THEN last' ELSE memo
    /\ budget' = budget - 1
    /\ pc' = "update"
    /\ UNCHANGED <<positions, topo, weights, upd, slots, par>>

\* the caller re-evaluates without an update
Keep ==
    /\ pc = "update" /\ budget > 0
    /\ upd' = "keep" /\ pc' = "eval"
    /\ UNCHANGED <<positions, topo, weights, last, prev, memo, budget,
                   slots, par>>

\* the caller's update: one atom moves one lattice step
MoveAtom ==
    /\ pc = "update" /\ budget > 0
    /\ \E i \in 1..Len(positions), d \in Steps :
           positions' = [positions EXCEPT ![i] = Plus(positions[i], d)]
    /\ upd' = "moved" /\ pc' = "eval"
    /\ UNCHANGED <<topo, weights, last, prev, memo, budget, slots, par>>

\* a rigid motion of the whole geometry: a rotation, then a translation
ApplyRigid ==
    /\ pc = "update" /\ budget > 0
    /\ \E r \in Rotations, t \in Translations :
           /\ ~(r = "id" /\ t = <<0,0,0>>)
           /\ positions' = [i \in 1..Len(positions) |->
                               Plus(Rot(r, positions[i]), t)]
    /\ upd' = "proper" /\ pc' = "eval"
    /\ UNCHANGED <<topo, weights, last, prev, memo, budget, slots, par>>

\* the mirror image of the whole geometry
Reflect ==
    /\ pc = "update" /\ budget > 0
    /\ positions' = [i \in 1..Len(positions) |-> Mirror(positions[i])]
    /\ upd' = "mirror" /\ pc' = "eval"
    /\ UNCHANGED <<topo, weights, last, prev, memo, budget, slots, par>>

Next == Evaluate \/ Keep \/ MoveAtom \/ ApplyRigid \/ Reflect

Spec == Init /\ [][Next]_vars

\* the refinement loop: evaluate, move an atom (or not), evaluate again
InitLoop == Start(LoopScenarios, {NoWeights}, MaxLoopCalls)
NextLoop == Evaluate \/ Keep \/ MoveAtom
LoopSpec == InitLoop /\ [][NextLoop]_vars

\* ----------------------------------------------- parallel evaluation ---

\* the four vectorised terms, each one thread; the chirality thread runs its
\* loop one constraint at a time
VectorTerms == {"bl", "ba", "rp", "sc"}

\* a term that reads the ring term's result when that is already there
TermRun_chained(t, pos, T, s) ==
    IF t = "bl"
    THEN bond_length_loss(pos, T.bonds.indices, T.bonds.target_lengths)
    ELSE IF t = "ba"
    THEN bond_angle_loss(pos, T.angles.indices, T.angles.target_radians)
    ELSE IF t = "rp" THEN RingTerm(pos, T.rings)
    ELSE IF s.rp # Pending /\ IsVal(s.rp)
         THEN Add(steric_clash_loss(pos, T.vdw_radii, Threshold), s.rp)
         ELSE steric_clash_loss(pos, T.vdw_radii, Threshold)

\* what the thread of term t computes: the call total_loss makes for t, on
\* the shared positions and topology; the slots s of the other threads are
\* not among its arguments
TermRun(t, pos, T, s) ==
    IF t = "bl"
    THEN bond_length_loss(pos, T.bonds.indices, T.bonds.target_lengths)
    ELSE IF t = "ba"
    THEN bond_angle_loss(pos, T.angles.indices, T.angles.target_radians)
    ELSE IF t = "rp" THEN RingTerm(pos, T.rings)
    ELSE steric_clash_loss(pos, T.vdw_radii, Threshold)

\* the threads start on the caller's current positions and topology
Fork ==
    /\ pc = "eval" /\ budget > 0 /\ par.positions # positions
    /\ slots' = [positions |-> positions,
                 bl |-> Pending, ba |-> Pending, rp |-> Pending,
                 sc |-> Pending, ch |-> Pending,
                 k |-> 1, loss |-> Val(0, 1), order |-> <<>>]
    /\ pc' = "par"
    /\ UNCHANGED <<positions, topo, weights, last, prev, upd, memo, budget,
                   par>>

\* the thread of one vectorised term runs and stores its result
RunTerm ==
    /\ pc = "par"
    /\ \E t \in VectorTerms :
           /\ slots[t] = Pending
           /\ slots' = [slots EXCEPT
                            ![t] = TermRun(t, positions, topo, slots),
                            !.order = Append(@, t)]
    /\ UNCHANGED <<positions, topo, weights, pc, last, prev, upd, memo,
                   budget, par>>

\* the chirality thread makes one pass of its loop, or returns its loss
ChiralityIter ==
    /\ pc = "par" /\ slots.ch = Pending
    /\ IF slots.k > Len(topo.chiral_centers)
       THEN slots' = [slots EXCEPT !.ch = slots.loss,
                                   !.order = Append(@, "ch")]
       ELSE LET p == chirality_step(positions, topo.chiral_centers[slots.k])
            IN  IF IsErr(p)
                THEN slots' = [slots EXCEPT !.ch = p,
                                            !.order = Append(@, "ch")]
                ELSE slots' = [slots EXCEPT !.loss = Add(@, p),
                                            !.k = @ + 1]
    /\ UNCHANGED <<positions, topo, weights, pc, last, prev, upd, memo,
                   budget, par>>

\* all threads have finished: the aggregator sums the weighted scalars
Join ==
    /\ pc = "par"
    /\ \A t \in VectorTerms \cup {"ch"} : slots[t] # Pending
    /\ par' = [positions |-> slots.positions,
               bl |-> slots.bl, ba |-> slots.ba, rp |-> slots.rp,
               sc |-> slots.sc, ch |-> slots.ch, order |-> slots.order,
               total |-> Accumulate(Accumulate(Accumulate(Accumulate(
                             Accumulate(Val(0, 1), W_bond_length, slots.bl),
                             W_bond_angle, slots.ba),
                             W_ring_planarity, slots.rp),
                             W_steric_clash, slots.sc),
                             W_chirality, slots.ch)]
    /\ pc' = "eval"
    /\ UNCHANGED <<positions, topo, weights, last, prev, upd, memo, budget,
                   slots>>

\* a parallel evaluation, then sequential ones on the same inputs
InitPar == Start(Scenarios, {NoWeights}, MaxCalls)
NextPar == Fork \/ RunTerm \/ ChiralityIter \/ Join \/ Evaluate \/ Keep
ParSpec == InitPar /\ [][NextPar]_vars


\* ------------------------------------------------------------- properties ---

N == Len(positions)
Evaluated == last # NoEvaluation
\* two evaluations, the caller's update `upd` between them
Compared == pc = "update" /\ prev # NoEvaluation

InRange(i) == 0 <= i /\ i < N
RowsInRange(rows) ==
    \A k \in 1..Len(rows) : \A c \in 1..Len(rows[k]) : InRange(rows[k][c])
\* the topology meets the data model: every index an atom index, non-empty
\* bond and angle sets, exactly 4 neighbours per chirality constraint
TopologyOK ==
    /\ Len(topo.bonds.indices) > 0 /\ RowsInRange(topo.bonds.indices)
    /\ Len(topo.angles.indices) > 0 /\ RowsInRange(topo.angles.indices)
    /\ RowsInRange(topo.rings)
    /\ \A k \in 1..Len(topo.chiral_centers) :
           /\ Len(topo.chiral_centers[k].neighbors) = 4
           /\ InRange(topo.chiral_centers[k].center)
           /\ \A c \in 1..4 : InRange(topo.chiral_centers[k].neighbors[c])

SameValue(x, y) == IsVal(x) /\ IsVal(y) /\ x.num * y.den = y.num * x.den

\* atoms i, j (1-based) lie closer than threshold * (radius_i + radius_j)
TooClose(i, j) ==
    100 * Norm(Sub(last.positions[i], last.positions[j]))
        < Threshold * (topo.vdw_radii[i] + topo.vdw_radii[j])
Bonded(i, j) ==
    \E k \in 1..Len(topo.bonds.indices) :
        {topo.bonds.indices[k][1], topo.bonds.indices[k][2]} = {i - 1, j - 1}

\* C1 (as claimed): after any evaluation, a bonded pair of atoms closer than
\* the clash threshold contributes zero to the Steric Clash Term in both
\* directions, and a non-bonded pair that close contributes a positive penalty.
C1_BondedPairsExcluded ==
    Evaluated =>
        \A i, j \in 1..N :
            (i # j /\ TooClose(i, j)) =>
                IF Bonded(i, j)
                THEN last.clash[i][j] = 0 /\ last.clash[j][i] = 0
                ELSE last.clash[i][j] > 0 /\ last.clash[j][i] > 0

\* the weighted sum of the terms other than ring planarity
SumWithoutRing ==
    Add(Add(Add(Scale(W_bond_length, last.bl), Scale(W_bond_angle, last.ba)),
            Scale(W_steric_clash, last.sc)),
        Scale(W_chirality, last.ch))

\* C2 (as claimed): on a well-formed topology with an empty Ring Set or an
\* empty Chirality Constraint Set the call does not fail, the absent term
\* contributes exactly 0 and the total is the finite weighted sum of the
\* remaining terms.
C2_EmptySetsSkipped ==
    (Evaluated /\ weights = NoWeights /\ TopologyOK) =>
        /\ topo.rings = <<>> =>
               /\ IsVal(last.total)
               /\ SameValue(last.total, SumWithoutRing)
        /\ topo.chiral_centers = <<>> =>
               /\ last.ch = Val(0, 1)
               /\ ~IsErr(last.total)

WrongCount == {k \in 1..Len(topo.chiral_centers) :
                  Len(topo.chiral_centers[k].neighbors) # 4}
FirstWrong == CHOOSE k \in WrongCount : \A m \in WrongCount : k <= m
\* nothing before constraint k raises: the bond, angle and ring indices and
\* the constraints before k are well-formed
NothingRaisesBefore(k) ==
    /\ AllIndexOK(topo.bonds.indices, N)
    /\ AllIndexOK(topo.angles.indices, N)
    /\ AllIndexOK(topo.rings, N)
    /\ \A m \in 1..(k - 1) : ConstraintOK(topo.chiral_centers[m], N)

\* C3: a chirality constraint whose neighbour list does not have exactly 4
\* entries makes the Chirality Term raise the error that names its centre,
\* never return a value: evaluated on that constraint alone, evaluated on the
\* whole set (the first such constraint is named, unless an earlier constraint
\* already raised), and through total_loss (unless an earlier term raised).
C3_NeighbourCountValidated ==
    (Evaluated /\ WrongCount # {}) =>
        /\ \A k \in WrongCount :
               last.pens[k] = ValueError(topo.chiral_centers[k].center)
        /\ IsErr(last.ch)
        /\ IsErr(last.total)
        /\ (\A m \in 1..(FirstWrong - 1) :
                ConstraintOK(topo.chiral_centers[m], N))
               => last.ch = ValueError(topo.chiral_centers[FirstWrong].center)
        /\ (weights = NoWeights /\ NothingRaisesBefore(FirstWrong))
               => last.total
                      = ValueError(topo.chiral_centers[FirstWrong].center)

\* a 5-neighbour constraint was evaluated, alone, in its set and through
\* total_loss, and each raised the error naming its centre
C3_Witness ==
    /\ Evaluated /\ weights = NoWeights
    /\ \E k \in WrongCount :
           /\ Len(topo.chiral_centers[k].neighbors) = 5
           /\ last.pens[k] = ValueError(topo.chiral_centers[k].center)
           /\ last.ch = last.pens[k]
           /\ last.total = last.pens[k]

NoTermRaises ==
    ~IsErr(last.bl) /\ ~IsErr(last.ba) /\ ~IsErr(last.rp) /\ ~IsErr(last.sc)
        /\ ~IsErr(last.ch)

\* sum over the five terms of w_t * term_t, the weights in tenths
WeightedSum(w) ==
    Add(Add(Add(Add(Add(Val(0, 1), Scale(w[1], last.bl)),
                    Scale(w[2], last.ba)), Scale(w[3], last.rp)),
            Scale(w[4], last.sc)), Scale(w[5], last.ch))

HasBadIndex(rows) == ~RowsInRange(rows)

\* C5 (as claimed): a bond pair or angle triple with an index outside 0..N-1
\* (negative ones included) makes the Bond Length Term, respectively the Bond
\* Angle Term, fail with an index error.
C5_BadIndexFailsFast ==
    Evaluated =>
        /\ HasBadIndex(topo.bonds.indices) => last.bl = IndexError
        /\ HasBadIndex(topo.angles.indices) => last.ba = IndexError

\* the evaluated geometry meets every bond and angle target
AtTargets ==
    /\ \A k \in 1..Len(last.lens) :
           last.lens[k] = topo.bonds.target_lengths[k]
    /\ \A k \in 1..Len(last.angs) :
           last.angs[k] = topo.angles.target_radians[k]
NoPairTooClose == \A i, j \in 1..N : i # j => ~TooClose(i, j)

\* C6 (as claimed): a geometry at all its bond and angle targets, with no
\* rings, no chirality constraints and no pair of atoms inside the clash
\* threshold, has total loss exactly 0.
C6_MatchingGeometryZeroLoss ==
    (Evaluated /\ weights = NoWeights /\ TopologyOK /\ AtTargets
        /\ topo.rings = <<>> /\ topo.chiral_centers = <<>> /\ NoPairTooClose)
        => (IsVal(last.total) /\ last.total.num = 0)

Abs(x) == IF x < 0 THEN -x ELSE x
Deviation(e, k) == Abs(e.lens[k] - topo.bonds.target_lengths[k])
\* between the two evaluations exactly one bond moved farther from its target
\* and nothing else changed
SingleStretch ==
    /\ Compared /\ upd = "moved" /\ weights = NoWeights /\ TopologyOK
    /\ \E k \in 1..Len(last.lens) :
           /\ Deviation(last, k) > Deviation(prev, k)
           /\ \A m \in 1..Len(last.lens) : m # k => last.lens[m] = prev.lens[m]
    /\ last.angs = prev.angs /\ last.rp = prev.rp
    /\ last.clash = prev.clash /\ last.vols = prev.vols

\* C7 (as claimed): stretching a single bond away from its target, all else
\* equal, strictly increases the Bond Length Term and the total loss.
C7_StretchIncreasesLoss ==
    SingleStretch => (Less(prev.bl, last.bl) /\ Less(prev.total, last.total))

\* C8: a rigid motion of all positions (rotation and translation, or a mirror
\* image) leaves the Bond Length, Bond Angle, Ring Planarity and Steric Clash
\* terms unchanged, and a proper one leaves the Chirality Term unchanged.
C8_RigidMotionInvariant ==
    (Compared /\ upd \in {"proper", "mirror"}) =>
        /\ last.bl = prev.bl /\ last.ba = prev.ba
        /\ last.rp = prev.rp /\ last.sc = prev.sc
        /\ upd = "proper" => last.ch = prev.ch

\* a geometry with all five terms positive was evaluated, moved rigidly and
\* evaluated again
C8_Witness ==
    /\ Compared /\ upd = "proper" /\ last.positions # prev.positions
    /\ IsVal(prev.bl) /\ prev.bl.num > 0 /\ IsVal(prev.ba) /\ prev.ba.num > 0
    /\ IsVal(prev.rp) /\ prev.rp.num > 0 /\ prev.sc.num > 0
    /\ IsVal(prev.ch) /\ prev.ch.num > 0

\* C9 (as claimed): every chirality constraint with zero penalty has a
\* strictly positive penalty in the mirror image.
C9_MirrorPenalisesEveryZero ==
    (Compared /\ upd = "mirror") =>
        \A k \in 1..Len(prev.pens) :
            prev.pens[k] = Val(0, 1)
                => (IsVal(last.pens[k]) /\ last.pens[k].num > 0)

\* C9 (amended): every chirality constraint with a strictly positive signed
\* volume (zero penalty, not degenerate) has, in the mirror image, a strictly
\* positive penalty equal to that volume.
C9_MirrorPenalisesPositiveVolume ==
    (Compared /\ upd = "mirror") =>
        \A k \in 1..Len(prev.pens) :
            (prev.pens[k] = Val(0, 1) /\ prev.vols[k] # 0)
                => /\ last.pens[k] = Val(prev.vols[k] * ValScale, 1)
                   /\ last.pens[k].num > 0

\* a correctly handed centre was mirrored and evaluated again
C9_Witness ==
    /\ Compared /\ upd = "mirror"
    /\ \E k \in 1..Len(prev.pens) :
           prev.pens[k] = Val(0, 1) /\ prev.vols[k] > 0
               /\ last.pens[k].num > 0

NonNegative(x) == IsVal(x) /\ x.den > 0 /\ x.num >= 0

\* C12 (as claimed): whenever total_loss returns on a well-formed topology,
\* whatever updates the caller made before, each of the five terms is a
\* number >= 0 and so is the returned total.
C12_LossNonNegative ==
    (Evaluated /\ weights = NoWeights /\ TopologyOK /\ ~IsErr(last.total)) =>
        /\ NonNegative(last.bl) /\ NonNegative(last.ba)
        /\ NonNegative(last.rp) /\ NonNegative(last.sc)
        /\ NonNegative(last.ch) /\ NonNegative(last.total)


=============================================================================
